---- MODULE Spec2Model ----
(***************************************************************************)
(* Order lifecycle of the build_adda backend: order creation with pricing *)
(* and stock decrement, the order-status state machine, the distributor   *)
(* approval gate, buyer cancellation and the payment confirmations, as    *)
(* implemented by models/Order.js, controllers/order.controller.js,       *)
(* services/order.service.js and controllers/distributor.controller.js.   *)
(*                                                                         *)
(* Money is counted in hundredths of a rupee so that the 18% tax and the  *)
(* percentage discounts are exact integers.  A JavaScript number in       *)
(* flight is a pair <<kind, value>>: <<"num", n>>, <<"NaN", 0>>,           *)
(* <<"undefined", 0>> or <<"null", 0>>.                                    *)
(***************************************************************************)
EXTENDS Integers, Sequences, FiniteSets, TLC

VARIABLES products, coupons, orders, last, reads

vars == <<products, coupons, orders, last, reads>>

(***************************************************************************)
(* Bounds of the model.                                                    *)
(***************************************************************************)
\* entries of one order's statusHistory
MaxHist == 3
\* applications counted on one coupon
MaxUsage == 1
\* the longest statusHistory an order gets when requests interleave
MaxRaceHist == 4

(***************************************************************************)
(* JavaScript values.                                                      *)
(***************************************************************************)
Num(n) == <<"num", n>>
NaN == <<"NaN", 0>>
Undefined == <<"undefined", 0>>
JsNull == <<"null", 0>>
IsNum(x) == x[1] = "num"
Val(x) == x[2]
\* a unset string / reference / date field of a document
Null == "null"
\* the value of new Date()
Now == "now"

\* ToNumber as the arithmetic operators apply it: undefined -> NaN, null -> 0
ToNumber(x) ==
  IF x[1] = "num" THEN x
  ELSE IF x[1] = "null" THEN Num(0)
  ELSE NaN

JsAdd(a, b) ==
  IF IsNum(ToNumber(a)) /\ IsNum(ToNumber(b))
  THEN Num(Val(ToNumber(a)) + Val(ToNumber(b)))
  ELSE NaN

JsSub(a, b) ==
  IF IsNum(ToNumber(a)) /\ IsNum(ToNumber(b))
  THEN Num(Val(ToNumber(a)) - Val(ToNumber(b)))
  ELSE NaN

Abs(n) == IF n < 0 THEN 0 - n ELSE n

(***************************************************************************)
(* Identities.                                                             *)
(***************************************************************************)
Users == {"u1", "u2"}
Distributors == {"d1", "d2"}
Admins == {"a1"}

(***************************************************************************)
(* Order model (models/Order.js).                                          *)
(***************************************************************************)
Statuses == {"pending", "confirmed", "processing", "shipped", "delivered", "cancelled"}

statusOrder == <<"pending", "confirmed", "processing", "shipped", "delivered">>

\* Array.prototype.indexOf, 0-based, -1 when absent
indexOf(seq, x) ==
  IF \E i \in 1..Len(seq) : seq[i] = x
  THEN (CHOOSE i \in 1..Len(seq) : seq[i] = x /\ \A j \in 1..(i - 1) : seq[j] # x) - 1
  ELSE 0 - 1

cancellableStatuses == {"pending", "confirmed", "processing"}

\* a mutation of canBeCancelled: a shipped order is cancellable too
canBeCancelledUntilShipped(o) ==
  o.orderStatus \in cancellableStatuses \cup {"shipped"}

\* the virtual canBeCancelled
canBeCancelled(o) == o.orderStatus \in cancellableStatuses

pricingFields == {"subtotal", "discount", "deliveryCharge", "totalAmount", "tax"}

\* the schema's validators of the number paths (cast to Number, min 0)
validNumber(x) == IsNum(x) /\ Val(x) >= 0

builtinValidation(doc) ==
  /\ \A f \in pricingFields : validNumber(doc[f])
  /\ doc.orderStatus \in Statuses
  /\ doc.paymentStatus \in {"pending", "paid", "failed", "refunded"}
  /\ doc.paymentMethod \in {"Online", "COD"}
  /\ doc.approvalStatus \in {"pending", "approved", "rejected"}
  /\ doc.cancelledByModel \in {Null, "User", "Distributor"}
  /\ \A i \in 1..Len(doc.statusHistory) :
       doc.statusHistory[i].updatedByModel \in {Null, "User", "Distributor"}

\* a mutation of historyHook: the hook writes no entry
historyHookSilent(doc, statusModified) == doc

\* pre('save') hook 1: one history entry when orderStatus is modified
historyHook(doc, statusModified) ==
  IF statusModified
  THEN [doc EXCEPT !.statusHistory = Append(@,
          [status |-> doc.orderStatus, timestamp |-> Now,
           note |-> <<"Order status changed to", doc.orderStatus>>,
           updatedBy |-> Null, updatedByModel |-> Null])]
  ELSE doc

\* the tolerance of pre('save') hook 2, in hundredths
totalTolerance == 500

\* a mutation of totalMismatch: the hook never refuses
totalMismatchNever(doc, pricingFieldsModified) == FALSE

\* pre('save') hook 2: TRUE when the save is refused with "Total amount mismatch"
totalMismatch(doc, pricingFieldsModified) ==
  /\ pricingFieldsModified
  /\ LET calculatedTotal == Val(doc.subtotal) + Val(doc.deliveryCharge) - Val(doc.discount)
     IN  Abs(calculatedTotal - Val(doc.totalAmount)) > totalTolerance

Ok(doc) == [err |-> "none", doc |-> doc]
Fail(e, doc) == [err |-> e, doc |-> doc]

\* Document.save() of a document loaded as `old` and changed in memory to `doc`:
\* validation, then the two pre('save') hooks; a refused save persists nothing
save(old, doc) ==
  IF ~builtinValidation(doc) THEN Fail("MongooseValidationError", old)
  ELSE IF totalMismatch(doc, \E f \in pricingFields : doc[f] # old[f])
       THEN Fail("Error", old)
       ELSE Ok(historyHook(doc, doc.orderStatus # old.orderStatus))

\* Model.create() of a new document: every path the caller set is modified,
\* orderStatus keeps its default and is not
create(doc) ==
  IF ~builtinValidation(doc) THEN Fail("MongooseValidationError", doc)
  ELSE IF totalMismatch(doc, TRUE) THEN Fail("Error", doc)
       ELSE Ok(historyHook(doc, FALSE))

\* a mutation of cancel: the line items are dropped with the cancellation
cancelDropsItems(o, reason, cancelledBy, cancelledByModel) ==
  IF ~canBeCancelled(o) THEN Fail("Error", o)
  ELSE save(o, [o EXCEPT !.orderStatus = "cancelled",
                         !.items = <<>>,
                         !.cancellationReason = reason,
                         !.cancelledAt = Now,
                         !.cancelledBy = cancelledBy,
                         !.cancelledByModel = cancelledByModel])

\* orderSchema.methods.cancel
cancel(o, reason, cancelledBy, cancelledByModel) ==
  IF ~canBeCancelled(o) THEN Fail("Error", o)
  ELSE save(o, [o EXCEPT !.orderStatus = "cancelled",
                         !.cancellationReason = reason,
                         !.cancelledAt = Now,
                         !.cancelledBy = cancelledBy,
                         !.cancelledByModel = cancelledByModel])

\* the note an explicit history entry carries: note || `Status updated to ${newStatus}`
noteOrDefault(note, newStatus) ==
  IF note = "" THEN <<"Status updated to", newStatus>> ELSE <<note, "">>

\* a mutation of updateRefused: the check of cancelled orders is missing
updateRefusedDeliveredOnly(o) == o.orderStatus = "delivered"

\* updateStatus, lines 319-327: no update of a delivered or cancelled order
updateRefused(o) == o.orderStatus = "delivered" \/ o.orderStatus = "cancelled"

\* a mutation of transitionAllowed: >= for >
transitionAllowedSideways(o, newStatus) ==
  \/ newStatus = "cancelled"
  \/ indexOf(statusOrder, newStatus) >= indexOf(statusOrder, o.orderStatus)

\* updateStatus, lines 330-335: cancel, or move forward in statusOrder
transitionAllowed(o, newStatus) ==
  LET currentIndex == indexOf(statusOrder, o.orderStatus)
      newIndex == indexOf(statusOrder, newStatus)
  IN  newStatus = "cancelled" \/ newIndex > currentIndex

\* orderSchema.methods.updateStatus
updateStatus(o, newStatus, note, updatedBy, updatedByModel) ==
  LET entry == [status |-> newStatus, timestamp |-> Now,
                note |-> noteOrDefault(note, newStatus),
                updatedBy |-> updatedBy, updatedByModel |-> updatedByModel]
  IN  IF updateRefused(o) THEN Fail("ValidationError", o)
      ELSE IF transitionAllowed(o, newStatus)
           THEN save(o, [o EXCEPT !.orderStatus = newStatus,
                                  !.statusHistory = Append(@, entry)])
           ELSE Fail("ValidationError", o)

\* a mutation of alreadyDecided: only a rejection closes the gate
alreadyDecidedRejectedOnly(o) == o.approvalStatus = "rejected"

\* approveOrder line 354, rejectOrder line 378: the approval gate is one-shot
alreadyDecided(o) == o.approvalStatus # "pending"

\* a mutation of approveOrder: the status becomes confirmed whatever it was
approveOrderAlwaysConfirms(o, distributorId, deliveryCharge) ==
  IF alreadyDecided(o) THEN Fail("Error", o)
  ELSE LET o1 == [o EXCEPT !.approvalStatus = "approved",
                           !.approvedAt = Now,
                           !.approvedBy = distributorId]
           o2 == IF deliveryCharge # Undefined /\ deliveryCharge # JsNull
                 THEN [o1 EXCEPT !.deliveryCharge = deliveryCharge,
                                 !.totalAmount = JsSub(JsAdd(o.subtotal, deliveryCharge), o.discount)]
                 ELSE o1
       IN  save(o, [o2 EXCEPT !.orderStatus = "confirmed"])

\* a mutation of approveOrder: a pending order is not moved to confirmed
approveOrderKeepsStatus(o, distributorId, deliveryCharge) ==
  IF alreadyDecided(o) THEN Fail("Error", o)
  ELSE LET o1 == [o EXCEPT !.approvalStatus = "approved",
                           !.approvedAt = Now,
                           !.approvedBy = distributorId]
           o2 == IF deliveryCharge # Undefined /\ deliveryCharge # JsNull
                 THEN [o1 EXCEPT !.deliveryCharge = deliveryCharge,
                                 !.totalAmount = JsSub(JsAdd(o.subtotal, deliveryCharge), o.discount)]
                 ELSE o1
       IN  save(o, o2)

\* a mutation of approveOrder: the recomputed total keeps the tax term
approveOrderTaxed(o, distributorId, deliveryCharge) ==
  IF alreadyDecided(o) THEN Fail("Error", o)
  ELSE LET o1 == [o EXCEPT !.approvalStatus = "approved",
                           !.approvedAt = Now,
                           !.approvedBy = distributorId]
           o2 == IF deliveryCharge # Undefined /\ deliveryCharge # JsNull
                 THEN [o1 EXCEPT !.deliveryCharge = deliveryCharge,
                                 !.totalAmount = JsSub(JsAdd(JsAdd(o.subtotal, o.tax), deliveryCharge),
                                                       o.discount)]
                 ELSE o1
           o3 == IF o2.orderStatus = "pending"
                 THEN [o2 EXCEPT !.orderStatus = "confirmed"]
                 ELSE o2
       IN  save(o, o3)

\* orderSchema.methods.approveOrder
approveOrder(o, distributorId, deliveryCharge) ==
  IF alreadyDecided(o) THEN Fail("Error", o)
  ELSE LET o1 == [o EXCEPT !.approvalStatus = "approved",
                           !.approvedAt = Now,
                           !.approvedBy = distributorId]
           o2 == IF deliveryCharge # Undefined /\ deliveryCharge # JsNull
                 THEN [o1 EXCEPT !.deliveryCharge = deliveryCharge,
                                 !.totalAmount = JsSub(JsAdd(o.subtotal, deliveryCharge), o.discount)]
                 ELSE o1
           o3 == IF o2.orderStatus = "pending"
                 THEN [o2 EXCEPT !.orderStatus = "confirmed"]
                 ELSE o2
       IN  save(o, o3)

\* a mutation of rejectOrder: the cancelling actor is not recorded
rejectOrderNoActor(o, distributorId, reason) ==
  IF alreadyDecided(o) THEN Fail("Error", o)
  ELSE save(o, [o EXCEPT !.approvalStatus = "rejected",
                         !.rejectionReason = reason,
                         !.approvedBy = distributorId,
                         !.orderStatus = "cancelled",
                         !.cancelledAt = Now])

\* orderSchema.methods.rejectOrder
rejectOrder(o, distributorId, reason) ==
  IF alreadyDecided(o) THEN Fail("Error", o)
  ELSE save(o, [o EXCEPT !.approvalStatus = "rejected",
                         !.rejectionReason = reason,
                         !.approvedBy = distributorId,
                         !.orderStatus = "cancelled",
                         !.cancelledAt = Now,
                         !.cancelledBy = distributorId,
                         !.cancelledByModel = "Distributor"])

(***************************************************************************)
(* Catalog (models/Product.js) and coupons.                                *)
(***************************************************************************)
\* the products of the store at start; "ghost" is a reference to no product
InitialCatalog ==
  [cement |-> [price |-> 10000, stock |-> 3, isActive |-> TRUE],
   steel  |-> [price |-> 50000, stock |-> 1, isActive |-> TRUE],
   nails  |-> [price |-> 500,   stock |-> 3, isActive |-> TRUE],
   sand   |-> [price |-> 1000,  stock |-> 2, isActive |-> TRUE],
   paint  |-> [price |-> 1000,  stock |-> 5, isActive |-> FALSE]]

ProductIds == DOMAIN InitialCatalog

InitialCoupons ==
  [SAVE10 |-> [discountType |-> "percentage", discountValue |-> 10, minPurchase |-> 0,
               maxDiscount |-> 5000, isActive |-> TRUE, expiryDate |-> "future",
               usageCount |-> 0],
   OLD10  |-> [discountType |-> "percentage", discountValue |-> 10, minPurchase |-> 0,
               maxDiscount |-> 0, isActive |-> TRUE, expiryDate |-> "past",
               usageCount |-> 0]]

\* String.prototype.toUpperCase on the codes the requests carry
toUpperCase(s) ==
  CASE s = "save10" -> "SAVE10"
    [] s = "old10" -> "OLD10"
    [] s = "flat50" -> "FLAT50"
    [] s = "nocode" -> "NOCODE"
    [] OTHER -> s

\* a mutation of findCoupon: the isActive condition of the query is missing
findCouponAnyActivity(cs, code) ==
  IF code \in DOMAIN cs /\ cs[code].expiryDate = "future"
  THEN code
  ELSE Null

\* Coupon.findOne({code, isActive: true, expiryDate: {$gte: now}})
findCoupon(cs, code) ==
  IF code \in DOMAIN cs /\ cs[code].isActive /\ cs[code].expiryDate = "future"
  THEN code
  ELSE Null

\* a mutation of couponDiscount: the cap of a percentage coupon is not applied
couponDiscountUnclamped(coupon, totalAmount) ==
  IF coupon.discountType = "percentage"
  THEN (totalAmount * coupon.discountValue) \div 100
  ELSE IF coupon.discountType = "fixed" THEN coupon.discountValue
  ELSE 0

\* the discount OrderService.applyCoupon computes for a coupon it found; the
\* amounts are hundredths and the requests carry whole rupees, so the
\* division by 100 is exact
couponDiscount(coupon, totalAmount) ==
  IF coupon.discountType = "percentage"
  THEN LET discount == (totalAmount * coupon.discountValue) \div 100
       IN  IF coupon.maxDiscount > 0 /\ discount > coupon.maxDiscount
           THEN coupon.maxDiscount
           ELSE discount
  ELSE IF coupon.discountType = "fixed" THEN coupon.discountValue
  ELSE 0

\* a mutation of applyCoupon: the usage counter is not written
applyCouponUncounted(cs, couponCode, totalAmount) ==
  LET code == findCoupon(cs, toUpperCase(couponCode))
  IN  IF code = Null THEN [err |-> "Error", value |-> Undefined, coupons |-> cs]
      ELSE IF totalAmount < cs[code].minPurchase
           THEN [err |-> "Error", value |-> Undefined, coupons |-> cs]
           ELSE [err |-> "none",
                 value |-> Num(couponDiscount(cs[code], totalAmount)),
                 coupons |-> cs]

\* OrderService.applyCoupon: the value it returns (a number) and the coupons after
applyCoupon(cs, couponCode, totalAmount) ==
  LET code == findCoupon(cs, toUpperCase(couponCode))
  IN  IF code = Null THEN [err |-> "Error", value |-> Undefined, coupons |-> cs]
      ELSE IF totalAmount < cs[code].minPurchase
           THEN [err |-> "Error", value |-> Undefined, coupons |-> cs]
           ELSE [err |-> "none",
                 value |-> Num(couponDiscount(cs[code], totalAmount)),
                 coupons |-> [cs EXCEPT ![code].usageCount = @ + 1]]

\* result.<name> of a value an await returned: a number has no such property
getProperty(v, name) ==
  IF v[1] = "object" THEN v[2][name] ELSE Undefined

(***************************************************************************)
(* Order creation (controllers/order.controller.js, OrderService).         *)
(***************************************************************************)
RECURSIVE validateItems(_, _, _, _)
\* the item loop of createOrder: the first violation wins
validateItems(catalog, items, i, acc) ==
  IF i > Len(items) THEN acc
  ELSE LET item == items[i]
       IN  IF item.product = Null \/ item.quantity = 0
           THEN [acc EXCEPT !.err = "ValidationError"]
           ELSE IF item.product \notin DOMAIN catalog
           THEN [acc EXCEPT !.err = "NotFoundError"]
           ELSE IF ~catalog[item.product].isActive
           THEN [acc EXCEPT !.err = "ValidationError"]
           ELSE IF catalog[item.product].stock < item.quantity
           THEN [acc EXCEPT !.err = "ValidationError"]
           ELSE validateItems(catalog, items, i + 1,
                  [acc EXCEPT
                     !.validatedItems = Append(@,
                        [product |-> item.product, quantity |-> item.quantity,
                         price |-> catalog[item.product].price]),
                     !.subtotal = @ + catalog[item.product].price * item.quantity])

taxPercent == 18
freeDeliveryAbove == 100000
flatDeliveryCharge == 5000

\* const tax = subtotal * 0.18
taxOf(subtotal) == (subtotal * taxPercent) \div 100

\* const deliveryCharge = subtotal > 1000 ? 0 : 50
deliveryChargeOf(subtotal) == IF subtotal > freeDeliveryAbove THEN 0 ELSE flatDeliveryCharge

\* const totalAmount = subtotal + tax + deliveryCharge - discount
totalAmountOf(subtotal, tax, deliveryCharge, discount) ==
  JsSub(JsAdd(JsAdd(Num(subtotal), Num(tax)), Num(deliveryCharge)), discount)

\* a schema default replaces an undefined value
withDefault(x, d) == IF x = Undefined THEN d ELSE x

\* the document new Order(orderData) builds, schema defaults applied
newOrder(n, userId, distributor, validatedItems, subtotal, discount, paymentMethod, couponCode) ==
  [orderNumber |-> n, user |-> userId, distributor |-> distributor,
   items |-> validatedItems,
   subtotal |-> Num(subtotal),
   discount |-> withDefault(discount, Num(0)),
   tax |-> Num(taxOf(subtotal)),
   taxPercentage |-> taxPercent,
   deliveryCharge |-> Num(deliveryChargeOf(subtotal)),
   totalAmount |-> totalAmountOf(subtotal, taxOf(subtotal), deliveryChargeOf(subtotal), discount),
   paymentMethod |-> paymentMethod, paymentStatus |-> "pending",
   razorpayOrderId |-> Null, razorpayPaymentId |-> Null, razorpaySignature |-> Null,
   orderStatus |-> "pending", statusHistory |-> <<>>,
   couponCode |-> toUpperCase(couponCode), coupon |-> Null,
   cancellationReason |-> Null, cancelledAt |-> Null, cancelledBy |-> Null,
   cancelledByModel |-> Null,
   approvalStatus |-> "pending", approvedAt |-> Null, approvedBy |-> Null,
   rejectionReason |-> Null]

\* a mutation of decrementStock: each product is written from the stock read
\* at the start, so only one line item of a product counts
decrementStockFromSnapshot(catalog, items, i) ==
  [p \in DOMAIN catalog |->
     IF \E k \in i..Len(items) : items[k].product = p
     THEN LET k == CHOOSE k \in i..Len(items) : items[k].product = p
          IN  [catalog[p] EXCEPT !.stock = @ - items[k].quantity]
     ELSE catalog[p]]

RECURSIVE decrementStock(_, _, _)
\* Product.findByIdAndUpdate(item.product, {$inc: {stock: -item.quantity}}) per item
decrementStock(catalog, items, i) ==
  IF i > Len(items) THEN catalog
  ELSE decrementStock(
         [catalog EXCEPT ![items[i].product].stock = @ - items[i].quantity],
         items, i + 1)

\* a mutation of createOrder: the stock loop runs before Order.create
createOrderStockFirst(catalog, doc) ==
  LET r == create(doc)
  IN  [err |-> r.err, doc |-> r.doc, catalog |-> decrementStock(catalog, doc.items, 1)]

\* OrderService.createOrder: Order.create, then the stock loop
createOrder(catalog, doc) ==
  LET r == create(doc)
  IN  IF r.err # "none"
      THEN [err |-> r.err, doc |-> doc, catalog |-> catalog]
      ELSE [err |-> "none", doc |-> r.doc,
            catalog |-> decrementStock(catalog, doc.items, 1)]

(***************************************************************************)
(* Requests and their outcome.  `last` is the last request handled: the   *)
(* handler, the order it named (0 when none), and the error it ended with *)
(* ("none" for a 2xx response).                                            *)
(***************************************************************************)
NoRequest == [op |-> "none", id |-> 0, err |-> "none"]

Request(op, id) == [op |-> op, id |-> id, err |-> "none"]

\* the statuses a request may ask for; "returned" is no status of the schema
RequestedStatuses == Statuses \cup {"returned"}

\* the delivery charges an approval may carry
DeliveryCharges == {Undefined, JsNull, Num(3000)}

\* The model follows one order aggregate: every handler reads and writes only
\* the order its request names, so the store holds the one order of this id.
OrderIds == {1}

exists(id) == id \in 1..Len(orders)

withinBounds(doc) == Len(doc.statusHistory) <= MaxHist

\* the store after a handler called a model method on order id
persist(id, r) == orders' = [orders EXCEPT ![id] = r.doc]

\* the requests that have loaded an order and not yet saved it: none when
\* every handler runs from its findById to its save without another in between
Slots == {"a", "b"}

NoRead == [id |-> 0]

NoReads == [slot \in Slots |-> NoRead]

Init ==
  /\ products = InitialCatalog
  /\ coupons = InitialCoupons
  /\ orders = <<>>
  /\ last = NoRequest
  /\ reads = NoReads

\* POST /api/orders
CreateOrder(userId, distributor, items, paymentMethod, couponCode) ==
  LET req == Request("createOrder", 0)
      v == validateItems(products, items, 1,
                         [err |-> "none", validatedItems |-> <<>>, subtotal |-> 0])
      c == IF couponCode # "" THEN applyCoupon(coupons, couponCode, v.subtotal)
           ELSE [err |-> "none", value |-> Undefined, coupons |-> coupons]
      discount == IF couponCode # "" THEN getProperty(c.value, "discount") ELSE Num(0)
      doc == newOrder(Len(orders) + 1, userId, distributor, v.validatedItems, v.subtotal,
                      discount, paymentMethod, couponCode)
      r == createOrder(products, doc)
  IN  /\ Len(orders) < Cardinality(OrderIds)
      /\ \A code \in DOMAIN coupons : c.coupons[code].usageCount <= MaxUsage
      /\ IF Len(items) = 0
         THEN /\ last' = [req EXCEPT !.err = "ValidationError"]
              /\ UNCHANGED <<products, coupons, orders, reads>>
         ELSE IF v.err # "none"
         THEN /\ last' = [req EXCEPT !.err = v.err]
              /\ UNCHANGED <<products, coupons, orders, reads>>
         ELSE IF c.err # "none"
         THEN /\ last' = [req EXCEPT !.err = c.err]
              /\ UNCHANGED <<products, coupons, orders, reads>>
         ELSE /\ coupons' = c.coupons
              /\ products' = r.catalog
              /\ IF r.err # "none"
                 THEN /\ last' = [req EXCEPT !.err = r.err]
                      /\ UNCHANGED <<orders, reads>>
                 ELSE /\ last' = [req EXCEPT !.id = Len(orders) + 1]
                      /\ orders' = Append(orders, r.doc)
                      /\ UNCHANGED reads

\* PUT /api/orders/:orderId/cancel
CancelOrder(userId, id, reason) ==
  LET req == Request("cancelOrder", id)
  IN  IF ~exists(id)
      THEN /\ last' = [req EXCEPT !.err = "NotFoundError"]
           /\ UNCHANGED <<products, coupons, orders, reads>>
      ELSE IF orders[id].user # userId
      THEN /\ last' = [req EXCEPT !.err = "AuthorizationError"]
           /\ UNCHANGED <<products, coupons, orders, reads>>
      ELSE LET r == cancel(orders[id], IF reason = "" THEN "Cancelled by user" ELSE reason,
                           userId, "User")
           IN  /\ withinBounds(r.doc)
               /\ last' = [req EXCEPT !.err = r.err]
               /\ persist(id, r)
               /\ UNCHANGED <<products, coupons, reads>>

\* the id the payment gateway gives the payment intent of an order
gatewayOrderId(id) == "rzp_order"

\* POST /api/orders/razorpay/create
CreateRazorpayOrder(userId, id) ==
  LET req == Request("createRazorpayOrder", id)
  IN  IF ~exists(id)
      THEN /\ last' = [req EXCEPT !.err = "NotFoundError"]
           /\ UNCHANGED <<products, coupons, orders, reads>>
      ELSE IF orders[id].user # userId
      THEN /\ last' = [req EXCEPT !.err = "AuthorizationError"]
           /\ UNCHANGED <<products, coupons, orders, reads>>
      ELSE IF orders[id].paymentMethod # "Online"
      THEN /\ last' = [req EXCEPT !.err = "ValidationError"]
           /\ UNCHANGED <<products, coupons, orders, reads>>
      ELSE LET r == save(orders[id], [orders[id] EXCEPT !.razorpayOrderId = gatewayOrderId(id)])
           IN  /\ last' = [req EXCEPT !.err = r.err]
               /\ persist(id, r)
               /\ UNCHANGED <<products, coupons, reads>>

\* HMAC-SHA256(secret, text) as a hex digest
hmac(secret, text) == <<"hmac-sha256", secret, text>>

razorpayKeySecret == "key_secret"

\* a mutation of verifyRazorpaySignature: every signature passes
verifyRazorpaySignatureAny(orderId, paymentId, signature) == TRUE

\* PaymentService.verifyRazorpaySignature
verifyRazorpaySignature(orderId, paymentId, signature) ==
  hmac(razorpayKeySecret, <<orderId, "|", paymentId>>) = signature

\* the signatures a verification request may carry
Signatures ==
  { hmac(razorpayKeySecret, <<"rzp_order", "|", "pay_1">>),
    hmac("guess", <<"rzp_order", "|", "pay_1">>) }

\* POST /api/orders/razorpay/verify
VerifyPayment(userId, id, razorpayOrderId, razorpayPaymentId, razorpaySignature) ==
  LET req == Request("verifyPayment", id)
  IN  IF ~exists(id)
      THEN /\ last' = [req EXCEPT !.err = "NotFoundError"]
           /\ UNCHANGED <<products, coupons, orders, reads>>
      ELSE IF orders[id].user # userId
      THEN /\ last' = [req EXCEPT !.err = "AuthorizationError"]
           /\ UNCHANGED <<products, coupons, orders, reads>>
      ELSE IF ~verifyRazorpaySignature(razorpayOrderId, razorpayPaymentId, razorpaySignature)
      THEN LET r == save(orders[id], [orders[id] EXCEPT !.paymentStatus = "failed"])
           IN  /\ last' = [req EXCEPT !.err = IF r.err = "none" THEN "ValidationError" ELSE r.err]
               /\ persist(id, r)
               /\ UNCHANGED <<products, coupons, reads>>
      ELSE LET r == save(orders[id], [orders[id] EXCEPT !.razorpayPaymentId = razorpayPaymentId,
                                                       !.razorpaySignature = razorpaySignature,
                                                       !.paymentStatus = "paid",
                                                       !.orderStatus = "confirmed"])
           IN  /\ withinBounds(r.doc)
               /\ last' = [req EXCEPT !.err = r.err]
               /\ persist(id, r)
               /\ UNCHANGED <<products, coupons, reads>>

\* POST /api/orders/cod/confirm
ConfirmCOD(userId, id) ==
  LET req == Request("confirmCOD", id)
  IN  IF ~exists(id)
      THEN /\ last' = [req EXCEPT !.err = "NotFoundError"]
           /\ UNCHANGED <<products, coupons, orders, reads>>
      ELSE IF orders[id].user # userId
      THEN /\ last' = [req EXCEPT !.err = "AuthorizationError"]
           /\ UNCHANGED <<products, coupons, orders, reads>>
      ELSE IF orders[id].paymentMethod # "COD"
      THEN /\ last' = [req EXCEPT !.err = "ValidationError"]
           /\ UNCHANGED <<products, coupons, orders, reads>>
      ELSE LET r == save(orders[id], [orders[id] EXCEPT !.paymentStatus = "pending",
                                                       !.orderStatus = "confirmed"])
           IN  /\ withinBounds(r.doc)
               /\ last' = [req EXCEPT !.err = r.err]
               /\ persist(id, r)
               /\ UNCHANGED <<products, coupons, reads>>

\* POST /api/orders/apply-coupon: the discount preview
ApplyCoupon(couponCode, totalAmount) ==
  LET req == Request("applyCoupon", 0)
      c == applyCoupon(coupons, couponCode, totalAmount)
  IN  /\ \A code \in DOMAIN coupons : c.coupons[code].usageCount <= MaxUsage
      /\ IF couponCode = "" \/ totalAmount <= 0
         THEN /\ last' = [req EXCEPT !.err = "ValidationError"]
              /\ UNCHANGED <<products, coupons, orders, reads>>
         ELSE /\ last' = [req EXCEPT !.err = c.err]
              /\ coupons' = c.coupons
              /\ UNCHANGED <<products, orders, reads>>

\* the notes a status request may carry ("" when it carries none)
Notes == {"", "packed"}

\* PUT /api/orders/distributor/orders/:orderId (order.controller.js)
UpdateOrderStatus(distributorId, id, status, note) ==
  LET req == Request("updateOrderStatus", id)
  IN  IF status = ""
      THEN /\ last' = [req EXCEPT !.err = "ValidationError"]
           /\ UNCHANGED <<products, coupons, orders, reads>>
      ELSE IF ~exists(id)
      THEN /\ last' = [req EXCEPT !.err = "NotFoundError"]
           /\ UNCHANGED <<products, coupons, orders, reads>>
      ELSE IF orders[id].distributor # distributorId
      THEN /\ last' = [req EXCEPT !.err = "AuthorizationError"]
           /\ UNCHANGED <<products, coupons, orders, reads>>
      ELSE LET r == updateStatus(orders[id], status, note, distributorId, "Distributor")
           IN  /\ withinBounds(r.doc)
               /\ last' = [req EXCEPT !.err = r.err]
               /\ persist(id, r)
               /\ UNCHANGED <<products, coupons, reads>>

\* PUT /api/distributor/orders/:orderId/status (distributor.controller.js)
DistributorUpdateOrderStatus(distributorId, id, orderStatus, note) ==
  LET req == Request("distributorUpdateOrderStatus", id)
      validStatuses == {"confirmed", "processing", "shipped", "delivered"}
  IN  IF orderStatus = "" \/ orderStatus \notin validStatuses
      THEN /\ last' = [req EXCEPT !.err = "ValidationError"]
           /\ UNCHANGED <<products, coupons, orders, reads>>
      ELSE IF ~exists(id)
      THEN /\ last' = [req EXCEPT !.err = "NotFoundError"]
           /\ UNCHANGED <<products, coupons, orders, reads>>
      ELSE IF orders[id].distributor # distributorId
      THEN /\ last' = [req EXCEPT !.err = "AuthorizationError"]
           /\ UNCHANGED <<products, coupons, orders, reads>>
      ELSE IF orders[id].orderStatus = "cancelled"
      THEN /\ last' = [req EXCEPT !.err = "ValidationError"]
           /\ UNCHANGED <<products, coupons, orders, reads>>
      ELSE LET r == updateStatus(orders[id], orderStatus, note, distributorId, "Distributor")
           IN  /\ withinBounds(r.doc)
               /\ last' = [req EXCEPT !.err = r.err]
               /\ persist(id, r)
               /\ UNCHANGED <<products, coupons, reads>>

\* PUT /api/admin/orders/:orderId/status
AdminUpdateOrderStatus(adminId, id, orderStatus, note) ==
  LET req == Request("adminUpdateOrderStatus", id)
  IN  IF orderStatus = "" \/ orderStatus \notin Statuses
      THEN /\ last' = [req EXCEPT !.err = "ValidationError"]
           /\ UNCHANGED <<products, coupons, orders, reads>>
      ELSE IF ~exists(id)
      THEN /\ last' = [req EXCEPT !.err = "NotFoundError"]
           /\ UNCHANGED <<products, coupons, orders, reads>>
      ELSE LET r == updateStatus(orders[id], orderStatus,
                                 IF note = "" THEN "Updated by admin" ELSE note,
                                 adminId, "User")
           IN  /\ withinBounds(r.doc)
               /\ last' = [req EXCEPT !.err = r.err]
               /\ persist(id, r)
               /\ UNCHANGED <<products, coupons, reads>>

\* parseFloat of the deliveryCharge of a request body
parseFloat(x) == IF IsNum(x) THEN x ELSE NaN

\* PUT /api/distributor/orders/:orderId/approve
ApproveOrder(distributorId, id, deliveryCharge) ==
  LET req == Request("approveOrder", id)
  IN  IF /\ deliveryCharge # Undefined /\ deliveryCharge # JsNull
         /\ (~IsNum(parseFloat(deliveryCharge)) \/ Val(parseFloat(deliveryCharge)) < 0)
      THEN /\ last' = [req EXCEPT !.err = "ValidationError"]
           /\ UNCHANGED <<products, coupons, orders, reads>>
      ELSE IF ~exists(id)
      THEN /\ last' = [req EXCEPT !.err = "NotFoundError"]
           /\ UNCHANGED <<products, coupons, orders, reads>>
      ELSE IF orders[id].distributor # distributorId
      THEN /\ last' = [req EXCEPT !.err = "AuthorizationError"]
           /\ UNCHANGED <<products, coupons, orders, reads>>
      ELSE LET r == approveOrder(orders[id], distributorId,
                                 IF deliveryCharge # Undefined THEN parseFloat(deliveryCharge)
                                 ELSE Undefined)
           IN  /\ withinBounds(r.doc)
               /\ last' = [req EXCEPT !.err = r.err]
               /\ persist(id, r)
               /\ UNCHANGED <<products, coupons, reads>>

\* String.prototype.trim on the reasons the requests carry
trim(s) ==
  CASE s = " out of stock " -> "out of stock"
    [] s = "  " -> ""
    [] OTHER -> s

\* the rejection reasons a distributor may send
Reasons == {" out of stock ", "  "}

\* a mutation of RejectOrder: the ownership check is missing
RejectOrderAnyDistributor(distributorId, id, reason) ==
  LET req == Request("rejectOrder", id)
  IN  IF reason = "" \/ trim(reason) = ""
      THEN /\ last' = [req EXCEPT !.err = "ValidationError"]
           /\ UNCHANGED <<products, coupons, orders, reads>>
      ELSE IF ~exists(id)
      THEN /\ last' = [req EXCEPT !.err = "NotFoundError"]
           /\ UNCHANGED <<products, coupons, orders, reads>>
      ELSE LET r == rejectOrder(orders[id], distributorId, trim(reason))
           IN  /\ withinBounds(r.doc)
               /\ last' = [req EXCEPT !.err = r.err]
               /\ persist(id, r)
               /\ UNCHANGED <<products, coupons, reads>>

\* PUT /api/distributor/orders/:orderId/reject
RejectOrder(distributorId, id, reason) ==
  LET req == Request("rejectOrder", id)
  IN  IF reason = "" \/ trim(reason) = ""
      THEN /\ last' = [req EXCEPT !.err = "ValidationError"]
           /\ UNCHANGED <<products, coupons, orders, reads>>
      ELSE IF ~exists(id)
      THEN /\ last' = [req EXCEPT !.err = "NotFoundError"]
           /\ UNCHANGED <<products, coupons, orders, reads>>
      ELSE IF orders[id].distributor # distributorId
      THEN /\ last' = [req EXCEPT !.err = "AuthorizationError"]
           /\ UNCHANGED <<products, coupons, orders, reads>>
      ELSE LET r == rejectOrder(orders[id], distributorId, trim(reason))
           IN  /\ withinBounds(r.doc)
               /\ last' = [req EXCEPT !.err = r.err]
               /\ persist(id, r)
               /\ UNCHANGED <<products, coupons, reads>>

\* the prices a product update may carry, in hundredths
PriceUpdates == {0, 600}

\* PUT /api/distributor/products/:productId with a price in the body
UpdateProduct(distributorId, productId, price) ==
  LET req == Request("updateProduct", 0)
  IN  IF productId \notin DOMAIN products
      THEN /\ last' = [req EXCEPT !.err = "NotFoundError"]
           /\ UNCHANGED <<products, coupons, orders, reads>>
      ELSE IF price <= 0
      THEN /\ last' = [req EXCEPT !.err = "ValidationError"]
           /\ UNCHANGED <<products, coupons, orders, reads>>
      ELSE /\ last' = req
           /\ products' = [products EXCEPT ![productId].price = price]
           /\ UNCHANGED <<coupons, orders, reads>>

Basket(p1, q1, p2, q2) ==
  <<[product |-> p1, quantity |-> q1], [product |-> p2, quantity |-> q2]>>

\* the checkouts the buyer sends: two that succeed (two products; one product
\* in two line items) and one for each way a checkout fails
Checkouts ==
  { [items |-> Basket("nails", 2, "sand", 1), paymentMethod |-> "COD", couponCode |-> ""],
    [items |-> Basket("nails", 2, "sand", 1), paymentMethod |-> "Online", couponCode |-> ""],
    [items |-> Basket("nails", 1, "nails", 2), paymentMethod |-> "COD", couponCode |-> ""],
    [items |-> Basket("nails", 2, "sand", 1), paymentMethod |-> "COD", couponCode |-> "save10"],
    [items |-> Basket("nails", 2, "sand", 1), paymentMethod |-> "COD", couponCode |-> "old10"],
    [items |-> Basket("cement", 3, "steel", 1), paymentMethod |-> "Online", couponCode |-> "save10"],
    [items |-> Basket("cement", 3, "steel", 1), paymentMethod |-> "Online", couponCode |-> ""],
    [items |-> Basket("nails", 1, "ghost", 1), paymentMethod |-> "COD", couponCode |-> ""],
    [items |-> Basket("sand", 1, "paint", 1), paymentMethod |-> "COD", couponCode |-> ""],
    [items |-> Basket("nails", 1, "steel", 2), paymentMethod |-> "COD", couponCode |-> ""],
    [items |-> <<>>, paymentMethod |-> "COD", couponCode |-> ""] }

\* the codes and amounts a discount preview may carry
PreviewCodes == {"", "save10", "flat50", "nocode"}

PreviewAmounts == {0, 2000, 80000}

Next ==
  \/ \E couponCode \in {"save10", "old10"} : ApplyCoupon(couponCode, 2000)
  \/ \E c \in Checkouts : CreateOrder("u1", "d1", c.items, c.paymentMethod, c.couponCode)
  \/ \E id \in OrderIds : CancelOrder("u1", id, "")
  \/ \E id \in OrderIds : CreateRazorpayOrder("u1", id)
  \/ \E id \in OrderIds, signature \in Signatures :
       VerifyPayment("u1", id, "rzp_order", "pay_1", signature)
  \/ \E id \in OrderIds : ConfirmCOD("u1", id)
  \/ \E id \in OrderIds, status \in RequestedStatuses :
       UpdateOrderStatus("d1", id, status, "")
  \/ \E id \in OrderIds, status \in RequestedStatuses :
       DistributorUpdateOrderStatus("d1", id, status, "")
  \/ \E id \in OrderIds, status \in {"pending", "delivered", "cancelled"} :
       AdminUpdateOrderStatus("a1", id, status, "")
  \/ \E id \in OrderIds, deliveryCharge \in DeliveryCharges :
       ApproveOrder("d1", id, deliveryCharge)
  \/ \E id \in OrderIds, reason \in Reasons :
       RejectOrder("d1", id, reason)

Spec == Init /\ [][Next]_vars

\* the order handlers together with the distributor's product updates
CatalogNext ==
  \/ Next
  \/ \E productId \in {"nails", "ghost"}, price \in PriceUpdates :
       UpdateProduct("d1", productId, price)

CatalogSpec == Init /\ [][CatalogNext]_vars

\* the order handlers together with the requests of a user and a distributor
\* who do not own the order
StrangerNext ==
  \/ Next
  \/ \E id \in OrderIds : CancelOrder("u2", id, "")
  \/ \E id \in OrderIds : CreateRazorpayOrder("u2", id)
  \/ \E id \in OrderIds, signature \in Signatures :
       VerifyPayment("u2", id, "rzp_order", "pay_1", signature)
  \/ \E id \in OrderIds : ConfirmCOD("u2", id)
  \/ \E id \in OrderIds, status \in RequestedStatuses :
       UpdateOrderStatus("d2", id, status, "")
  \/ \E id \in OrderIds, status \in RequestedStatuses :
       DistributorUpdateOrderStatus("d2", id, status, "")
  \/ \E id \in OrderIds, deliveryCharge \in DeliveryCharges :
       ApproveOrder("d2", id, deliveryCharge)
  \/ \E id \in OrderIds, reason \in Reasons :
       RejectOrder("d2", id, reason)

StrangerSpec == Init /\ [][StrangerNext]_vars

(***************************************************************************)
(* Interleaved requests.  A handler awaits Order.findById and later awaits *)
(* the save of the model method; between the two another request may run. *)
(* The schema sets no optimisticConcurrency and the handlers use no        *)
(* session, so a save writes the paths the handler modified on the stored  *)
(* document whatever its state has become.                                 *)
(***************************************************************************)
\* Document.save() of a loaded document: $set of the paths that differ from
\* what was loaded, $push of the history entries added since the load
writeModified(stored, loaded, doc) ==
  [f \in DOMAIN stored |->
     IF f = "statusHistory"
     THEN stored.statusHistory \o
            SubSeq(doc.statusHistory, Len(loaded.statusHistory) + 1, Len(doc.statusHistory))
     ELSE IF doc[f] # loaded[f] THEN doc[f] ELSE stored[f]]

\* the store after the request in `slot` saved the outcome r of a model method
saveLoaded(slot, r) ==
  LET id == reads[slot].id
      written == writeModified(orders[id], reads[slot].doc, r.doc)
  IN  /\ Len(written.statusHistory) <= MaxRaceHist
      /\ orders' = IF r.err = "none" THEN [orders EXCEPT ![id] = written] ELSE orders
      /\ reads' = [reads EXCEPT ![slot] = NoRead]

\* const order = await Order.findById(orderId), the ownership check passed
Load(slot, id) ==
  /\ reads[slot] = NoRead
  /\ exists(id)
  /\ reads' = [reads EXCEPT ![slot] = [id |-> id, doc |-> orders[id]]]
  /\ UNCHANGED <<products, coupons, orders, last>>

\* await order.updateStatus(status, note, distributorId, 'Distributor')
UpdateStatusSave(slot, status) ==
  /\ reads[slot] # NoRead
  /\ LET r == updateStatus(reads[slot].doc, status, "", "d1", "Distributor")
     IN  /\ last' = [Request("updateOrderStatus", reads[slot].id) EXCEPT !.err = r.err]
         /\ saveLoaded(slot, r)
         /\ UNCHANGED <<products, coupons>>

\* await order.approveOrder(distributorId, deliveryCharge)
ApproveSave(slot, deliveryCharge) ==
  /\ reads[slot] # NoRead
  /\ LET r == approveOrder(reads[slot].doc, "d1", deliveryCharge)
     IN  /\ last' = [Request("approveOrder", reads[slot].id) EXCEPT !.err = r.err]
         /\ saveLoaded(slot, r)
         /\ UNCHANGED <<products, coupons>>

\* await order.rejectOrder(distributorId, reason.trim())
RejectSave(slot, reason) ==
  /\ reads[slot] # NoRead
  /\ LET r == rejectOrder(reads[slot].doc, "d1", trim(reason))
     IN  /\ last' = [Request("rejectOrder", reads[slot].id) EXCEPT !.err = r.err]
         /\ saveLoaded(slot, r)
         /\ UNCHANGED <<products, coupons>>

\* the checkouts sent while requests interleave; one lists a product twice
RaceCheckouts ==
  { [items |-> Basket("nails", 2, "sand", 1), paymentMethod |-> "COD", couponCode |-> ""],
    [items |-> Basket("nails", 2, "nails", 2), paymentMethod |-> "COD", couponCode |-> ""],
    [items |-> Basket("nails", 1, "steel", 2), paymentMethod |-> "COD", couponCode |-> ""] }

RaceNext ==
  \/ \E c \in RaceCheckouts : CreateOrder("u1", "d1", c.items, c.paymentMethod, c.couponCode)
  \/ \E slot \in Slots, id \in OrderIds : Load(slot, id)
  \/ \E slot \in Slots, status \in RequestedStatuses : UpdateStatusSave(slot, status)
  \/ \E slot \in Slots, deliveryCharge \in {Undefined, Num(3000)} :
       ApproveSave(slot, deliveryCharge)
  \/ \E slot \in Slots : RejectSave(slot, " out of stock ")

RaceSpec == Init /\ [][RaceNext]_vars

(***************************************************************************)
(* The coupon ledger on its own: the store starts with one percentage and *)
(* one fixed coupon whose terms are drawn from small sets, and the buyer  *)
(* previews discounts and checks out with coupon codes.                   *)
(***************************************************************************)
Coupon(discountType, discountValue, minPurchase, maxDiscount, isActive, expiryDate) ==
  [discountType |-> discountType, discountValue |-> discountValue,
   minPurchase |-> minPurchase, maxDiscount |-> maxDiscount,
   isActive |-> isActive, expiryDate |-> expiryDate, usageCount |-> 0]

CouponTables ==
  { [SAVE10 |-> Coupon("percentage", 10, minPurchase, maxDiscount, isActive, expiryDate),
     FLAT50 |-> Coupon("fixed", 5000, 0, flatCap, TRUE, "future")] :
      minPurchase \in {0, 50000}, maxDiscount \in {0, 5000}, isActive \in BOOLEAN,
      expiryDate \in {"future", "past"}, flatCap \in {0, 1000} }

CouponCheckouts ==
  { [items |-> Basket("nails", 2, "sand", 1), paymentMethod |-> "COD", couponCode |-> "save10"],
    [items |-> Basket("cement", 3, "steel", 1), paymentMethod |-> "Online", couponCode |-> "save10"],
    [items |-> Basket("nails", 2, "sand", 1), paymentMethod |-> "COD", couponCode |-> "flat50"],
    [items |-> Basket("nails", 2, "sand", 1), paymentMethod |-> "COD", couponCode |-> "nocode"],
    [items |-> Basket("nails", 1, "steel", 2), paymentMethod |-> "COD", couponCode |-> "flat50"] }

CouponInit ==
  /\ products = InitialCatalog
  /\ coupons \in CouponTables
  /\ orders = <<>>
  /\ last = NoRequest
  /\ reads = NoReads

CouponNext ==
  \/ \E couponCode \in PreviewCodes, totalAmount \in PreviewAmounts :
       ApplyCoupon(couponCode, totalAmount)
  \/ \E c \in CouponCheckouts :
       CreateOrder("u1", "d1", c.items, c.paymentMethod, c.couponCode)

CouponSpec == CouponInit /\ [][CouponNext]_vars

(***************************************************************************)
(* Properties.                                                             *)
(***************************************************************************)
terminalStatuses == {"delivered", "cancelled"}

\* the position of a status in pending < confirmed < processing < shipped < delivered
Rank == [pending |-> 1, confirmed |-> 2, processing |-> 3, shipped |-> 4, delivered |-> 5]

strictlyLater(s, t) == s \in DOMAIN Rank /\ t \in DOMAIN Rank /\ Rank[t] > Rank[s]

\* the three handlers that end in Order.updateStatus
updateOps == {"updateOrderStatus", "distributorUpdateOrderStatus", "adminUpdateOrderStatus"}

\* C1: an order whose orderStatus has become delivered or cancelled keeps that
\* orderStatus in every later state, whatever operation follows.
C1_TerminalStatusKept ==
  [][\A id \in DOMAIN orders :
       orders[id].orderStatus \in terminalStatuses
         => orders'[id].orderStatus = orders[id].orderStatus]_vars

\* C2: a status update requested on a delivered or cancelled order, for any
\* target status, ends with a ValidationError and leaves the stored order,
\* statusHistory included, exactly as it was.
C2_TerminalRejectsUpdate ==
  [][\A id \in DOMAIN orders :
       (/\ orders[id].orderStatus \in terminalStatuses
        /\ last'.op \in updateOps
        /\ last'.id = id)
         => (last'.err = "ValidationError" /\ orders' = orders)]_vars

C2_Witness ==
  /\ last.op = "updateOrderStatus"
  /\ last.err = "ValidationError"
  /\ last.id \in DOMAIN orders
  /\ orders[last.id].orderStatus = "cancelled"
  /\ orders[last.id].cancelledByModel = "User"

C4_ApprovalOneShot ==
  [][\A id \in DOMAIN orders :
       orders[id].approvalStatus # "pending"
         => /\ orders'[id].approvalStatus = orders[id].approvalStatus
            /\ (last'.op \in {"approveOrder", "rejectOrder"} /\ last'.id = id)
                 => (last'.err # "none" /\ orders' = orders)]_vars

\* a rejection attempted on an order that was approved before
C4_Witness ==
  /\ last.op = "rejectOrder"
  /\ last.err = "Error"
  /\ orders[last.id].approvalStatus = "approved"

RECURSIVE quantityFrom(_, _, _)
\* the quantity of product p over the line items i.. of a basket
quantityFrom(items, p, i) ==
  IF i > Len(items) THEN 0
  ELSE (IF items[i].product = p THEN items[i].quantity ELSE 0) + quantityFrom(items, p, i + 1)

quantityOf(items, p) == quantityFrom(items, p, 1)

RECURSIVE amountFrom(_, _, _)
\* the sum of catalog price x quantity over the line items i.. of a basket
amountFrom(catalog, items, i) ==
  IF i > Len(items) THEN 0
  ELSE catalog[items[i].product].price * items[i].quantity + amountFrom(catalog, items, i + 1)

\* a line item the checkout accepts: the product exists, is active and in stock
itemAccepted(catalog, item) ==
  /\ item.quantity >= 1
  /\ item.product \in DOMAIN catalog
  /\ catalog[item.product].isActive
  /\ catalog[item.product].stock >= item.quantity

allAccepted(catalog, items) ==
  Len(items) > 0 /\ \A i \in 1..Len(items) : itemAccepted(catalog, items[i])

\* the error of the first line item the checkout refuses
firstViolation(catalog, items) ==
  LET k == CHOOSE k \in 1..Len(items) :
             /\ ~itemAccepted(catalog, items[k])
             /\ \A j \in 1..(k - 1) : itemAccepted(catalog, items[j])
  IN  IF items[k].product \notin DOMAIN catalog THEN "NotFoundError" ELSE "ValidationError"

Checkout(c) == CreateOrder("u1", "d1", c.items, c.paymentMethod, c.couponCode)

\* C5: a successful buyer cancellation adds back to every product's stock the
\* quantity the order took at creation.
C5_CancelRestoresStock ==
  [][(last'.op = "cancelOrder" /\ last'.err = "none")
       => \A p \in ProductIds :
            products'[p].stock = products[p].stock + quantityOf(orders[last'.id].items, p)]_vars

\* C6: every stored order has totalAmount within the tolerance of
\* subtotal + deliveryCharge - discount.
C6_TotalWithinTolerance ==
  \A id \in DOMAIN orders :
    LET o == orders[id]
    IN  Abs(Val(o.totalAmount) - (Val(o.subtotal) + Val(o.deliveryCharge) - Val(o.discount)))
          <= totalTolerance

\* an approval with a delivery-charge override rewrote the total
C6_Witness ==
  /\ last.op = "approveOrder"
  /\ last.err = "none"
  /\ orders[last.id].deliveryCharge = Num(3000)
  /\ orders[last.id].totalAmount = Num(Val(orders[last.id].subtotal) + 3000)

\* C7: a checkout whose items all exist, are active and in stock (with no
\* coupon or a valid one) succeeds and stores subtotal = sum of price x quantity,
\* the coupon's discount, and totalAmount = subtotal + deliveryCharge - discount.
C7_ValidCheckoutPriced ==
  [][\A c \in Checkouts :
       (/\ Checkout(c)
        /\ allAccepted(products, c.items)
        /\ c.couponCode \in {"", "save10"})
         => /\ last'.err = "none"
            /\ LET o == orders'[last'.id]
                   subtotal == amountFrom(products, c.items, 1)
               IN  /\ Val(o.subtotal) = subtotal
                   /\ Val(o.discount) =
                        (IF c.couponCode = "" THEN 0
                         ELSE couponDiscount(coupons[toUpperCase(c.couponCode)], subtotal))
                   /\ Val(o.totalAmount) =
                        Val(o.subtotal) + Val(o.deliveryCharge) - Val(o.discount)]_vars

\* C8: a successful checkout lowers the stock of each product by the quantities
\* of its line items and changes no other product's stock.
C8_CheckoutDecrementsStock ==
  [][\A c \in Checkouts :
       (Checkout(c) /\ last'.err = "none")
         => \A p \in ProductIds :
              products'[p].stock = products[p].stock - quantityOf(c.items, p)]_vars

\* a created order with two line items of the same product
C8_Witness ==
  /\ last.op = "createOrder"
  /\ last.err = "none"
  /\ Len(orders[last.id].items) = 2
  /\ orders[last.id].items[1].product = orders[last.id].items[2].product
  /\ products["nails"].stock = 0

\* C9: a checkout that fails stores no order and changes no stock; a refused
\* line item fails it with the error of the first such item (NotFound for a
\* missing product, a Validation error for an inactive or short one).
C9_FailedCheckoutChangesNothing ==
  [][\A c \in Checkouts :
       (Checkout(c) /\ last'.err # "none")
         => /\ orders' = orders
            /\ products' = products
            /\ Len(c.items) = 0 => last'.err = "ValidationError"
            /\ (Len(c.items) > 0 /\ ~allAccepted(products, c.items))
                 => last'.err = firstViolation(products, c.items)]_vars

\* a checkout refused for a missing product after a line item that passed
C9_Witness ==
  /\ last.op = "createOrder"
  /\ last.err = "NotFoundError"
  /\ orders = <<>>
  /\ products = InitialCatalog

\* C10 as claimed: a successful rejection leaves approvalStatus rejected,
\* orderStatus cancelled and the whole cancellation record (reason, time,
\* actor, actor kind) populated with the rejecting distributor.
C10_RejectPopulatesCancellation ==
  (last.op = "rejectOrder" /\ last.err = "none")
    => LET o == orders[last.id]
       IN  /\ o.approvalStatus = "rejected"
           /\ o.orderStatus = "cancelled"
           /\ o.cancellationReason # Null
           /\ o.cancelledAt # Null
           /\ o.cancelledBy = o.distributor
           /\ o.cancelledByModel = "Distributor"

\* C10 amended: a successful rejection leaves approvalStatus rejected and
\* orderStatus cancelled, stores the reason as rejectionReason, and populates
\* cancelledAt, cancelledBy and cancelledByModel with the rejecting
\* distributor; cancellationReason is left as it was.
C10_RejectRecordsActor ==
  [][(last'.op = "rejectOrder" /\ last'.err = "none")
       => LET o == orders'[last'.id]
          IN  /\ o.approvalStatus = "rejected"
              /\ o.orderStatus = "cancelled"
              /\ o.rejectionReason = "out of stock"
              /\ o.cancellationReason = orders[last'.id].cancellationReason
              /\ o.cancelledAt = Now
              /\ o.cancelledBy = o.distributor
              /\ o.approvedBy = o.distributor
              /\ o.cancelledByModel = "Distributor"]_vars

\* a rejected order whose cancellation record has an actor and no reason
C10_Witness ==
  /\ last.op = "rejectOrder"
  /\ last.err = "none"
  /\ orders[last.id].approvalStatus = "rejected"
  /\ orders[last.id].orderStatus = "cancelled"
  /\ orders[last.id].cancelledByModel = "Distributor"
  /\ orders[last.id].cancellationReason = Null

\* C11: a successful approval sets approvalStatus = approved and records the
\* approving distributor and the time; orderStatus goes from pending to
\* confirmed and stays what it was when it was anything else.
C11_ApproveRecordsAndConfirms ==
  [][\A id \in OrderIds, d \in DeliveryCharges :
       (ApproveOrder("d1", id, d) /\ last'.err = "none")
         => LET o == orders[id]
                n == orders'[id]
            IN  /\ n.approvalStatus = "approved"
                /\ n.approvedBy = "d1"
                /\ n.approvedAt = Now
                /\ n.orderStatus =
                     (IF o.orderStatus = "pending" THEN "confirmed" ELSE o.orderStatus)]_vars

\* an approval that came when the order was already shipped
C11_Witness ==
  /\ last.op = "approveOrder"
  /\ last.err = "none"
  /\ orders[last.id].approvalStatus = "approved"
  /\ orders[last.id].approvedBy = "d1"
  /\ orders[last.id].orderStatus = "shipped"

\* C12: a successful approval with a delivery-charge override d stores
\* deliveryCharge = d and totalAmount = subtotal + d - discount with no tax
\* term; without an override deliveryCharge and totalAmount stay; subtotal
\* and discount stay in both cases.
C12_OverrideRecomputesTotal ==
  [][\A id \in OrderIds, d \in DeliveryCharges :
       (ApproveOrder("d1", id, d) /\ last'.err = "none")
         => LET o == orders[id]
                n == orders'[id]
            IN  /\ n.subtotal = o.subtotal
                /\ n.discount = o.discount
                /\ IF d = Undefined
                   THEN n.deliveryCharge = o.deliveryCharge /\ n.totalAmount = o.totalAmount
                   ELSE /\ n.deliveryCharge = d
                        /\ n.totalAmount = Num(Val(o.subtotal) + Val(d) - Val(o.discount))]_vars

\* an approved order with a taxed subtotal whose total was rewritten from the
\* override, so that it differs from the total the checkout stored
C12_Witness ==
  /\ last.op = "approveOrder"
  /\ last.err = "none"
  /\ Val(orders[last.id].tax) > 0
  /\ orders[last.id].deliveryCharge = Num(3000)
  /\ Val(orders[last.id].totalAmount) =
       Val(orders[last.id].subtotal) + 3000 - Val(orders[last.id].discount)
  /\ Val(orders[last.id].totalAmount) #
       Val(orders[last.id].subtotal) + Val(orders[last.id].tax) + 3000

\* C13: a buyer cancellation of an order that is pending, confirmed or
\* processing succeeds, sets orderStatus = cancelled and records reason, actor
\* and time; on a shipped, delivered or cancelled order it ends with an error
\* and the order stays as it was.
C13_CancelOnlyWhenCancellable ==
  [][\A id \in DOMAIN orders :
       CancelOrder("u1", id, "")
         => LET o == orders[id]
                n == orders'[id]
            IN  IF o.orderStatus \in {"pending", "confirmed", "processing"}
                THEN /\ last'.err = "none"
                     /\ n.orderStatus = "cancelled"
                     /\ n.cancellationReason = "Cancelled by user"
                     /\ n.cancelledAt = Now
                     /\ n.cancelledBy = "u1"
                     /\ n.cancelledByModel = "User"
                ELSE last'.err # "none" /\ orders' = orders]_vars

\* a cancellation the buyer asked for after the order was shipped
C13_Witness ==
  /\ last.op = "cancelOrder"
  /\ last.err = "Error"
  /\ orders[last.id].orderStatus = "shipped"
  /\ orders[last.id].cancelledAt = Null

\* C14: a payment verification whose signature is not the HMAC of
\* orderId|paymentId under the key secret sets paymentStatus = failed and
\* leaves every other field of the order as it was.
C14_BadSignatureOnlyFailsPayment ==
  [][\A id \in DOMAIN orders, signature \in Signatures :
       (/\ VerifyPayment("u1", id, "rzp_order", "pay_1", signature)
        /\ signature # hmac(razorpayKeySecret, <<"rzp_order", "|", "pay_1">>))
         => /\ last'.err = "ValidationError"
            /\ orders'[id] = [orders[id] EXCEPT !.paymentStatus = "failed"]]_vars

\* a forged signature sent for an order that was paid before
C14_Witness ==
  /\ last.op = "verifyPayment"
  /\ last.err = "ValidationError"
  /\ orders[last.id].paymentStatus = "failed"
  /\ orders[last.id].razorpayPaymentId = "pay_1"
  /\ orders[last.id].orderStatus = "confirmed"

Min(a, b) == IF a <= b THEN a ELSE b

\* the coupon a code names is on file, active and unexpired, and the amount
\* reaches its minimum purchase
couponApplies(cs, couponCode, amount) ==
  LET k == toUpperCase(couponCode)
  IN  /\ k \in DOMAIN cs
      /\ cs[k].isActive
      /\ cs[k].expiryDate # "past"
      /\ amount >= cs[k].minPurchase

CouponCheckout(c) == CreateOrder("u1", "d1", c.items, c.paymentMethod, c.couponCode)

\* C15: the discount computed for a percentage coupon is amount x value / 100,
\* clamped to maxDiscount when maxDiscount > 0 and unclamped when it is 0, so
\* it never exceeds a positive cap; for a fixed coupon it is the flat
\* discountValue whatever the amount.
C15_DiscountComputation ==
  [][\A couponCode \in PreviewCodes, amount \in PreviewAmounts :
       (ApplyCoupon(couponCode, amount) /\ last'.err = "none")
         => LET coupon == coupons[toUpperCase(couponCode)]
                value == applyCoupon(coupons, couponCode, amount).value
                proportional == (amount * coupon.discountValue) \div 100
            IN  /\ IsNum(value)
                /\ coupon.discountType = "fixed" => Val(value) = coupon.discountValue
                /\ (coupon.discountType = "percentage" /\ coupon.maxDiscount = 0)
                     => Val(value) = proportional
                /\ (coupon.discountType = "percentage" /\ coupon.maxDiscount > 0)
                     => /\ Val(value) = Min(proportional, coupon.maxDiscount)
                        /\ Val(value) <= coupon.maxDiscount]_vars

\* the capped percentage coupon was applied to an amount that reaches its
\* minimum purchase, where 10 percent is more than the cap
C15_Witness ==
  /\ last.op = "applyCoupon"
  /\ last.err = "none"
  /\ coupons["SAVE10"].usageCount = 1
  /\ coupons["SAVE10"].maxDiscount = 5000
  /\ coupons["SAVE10"].minPurchase = 50000
  /\ coupons["FLAT50"].usageCount = 0

\* C16: an application of a code that is unknown, inactive, expired or below
\* the coupon's minimum purchase ends with an error, yields no discount and
\* leaves the usage counter of every coupon as it was, in the preview and in
\* a checkout alike.
C16_FailedApplicationCountsNothing ==
  [][/\ \A couponCode \in PreviewCodes \ {""}, amount \in PreviewAmounts \ {0} :
          (ApplyCoupon(couponCode, amount) /\ ~couponApplies(coupons, couponCode, amount))
            => /\ last'.err = "Error"
               /\ applyCoupon(coupons, couponCode, amount).value = Undefined
               /\ coupons' = coupons
     /\ \A c \in CouponCheckouts :
          (/\ CouponCheckout(c)
           /\ allAccepted(products, c.items)
           /\ ~couponApplies(coupons, c.couponCode, amountFrom(products, c.items, 1)))
            => /\ last'.err = "Error"
               /\ coupons' = coupons
               /\ orders' = orders]_vars

\* a checkout refused for its coupon while the percentage coupon is inactive
C16_Witness ==
  /\ last.op = "createOrder"
  /\ last.err = "Error"
  /\ ~coupons["SAVE10"].isActive
  /\ coupons["SAVE10"].usageCount = 0
  /\ orders = <<>>

\* C17: a discount preview leaves the usage counter of every coupon as it was.
C17_PreviewLeavesUsage ==
  [][\A couponCode \in PreviewCodes, amount \in PreviewAmounts :
       ApplyCoupon(couponCode, amount)
         => \A k \in DOMAIN coupons : coupons'[k].usageCount = coupons[k].usageCount]_vars

C19_GatewayFieldsOnlyOnline ==
  \A id \in DOMAIN orders :
    orders[id].paymentMethod # "Online"
      => /\ orders[id].razorpayOrderId = Null
         /\ orders[id].razorpayPaymentId = Null
         /\ orders[id].razorpaySignature = Null

\* C20: no step changes the order number, owning user, owning distributor,
\* payment method, line items or captured unit prices of an order that
\* exists; a change of a product's catalog price leaves the unit prices of
\* the stored orders as they were.
C20_IdentityAndItemsKept ==
  [][\A id \in DOMAIN orders :
       /\ orders'[id].orderNumber = orders[id].orderNumber
       /\ orders'[id].user = orders[id].user
       /\ orders'[id].distributor = orders[id].distributor
       /\ orders'[id].paymentMethod = orders[id].paymentMethod
       /\ orders'[id].items = orders[id].items]_vars

\* the catalog price of a product was raised after an order captured the old
\* price and was cancelled by its buyer
C20_Witness ==
  /\ last.op = "updateProduct"
  /\ last.err = "none"
  /\ Len(orders) = 1
  /\ orders[1].orderStatus = "cancelled"
  /\ orders[1].cancelledByModel = "User"
  /\ orders[1].items[1].product = "nails"
  /\ orders[1].items[1].price = 500
  /\ products["nails"].price = 600

\* C21: an accepted status update appends exactly one history entry, with the
\* new status, the note of the request or the generated default, the actor
\* and the actor kind, so the history grows by exactly 1.
C21_OneEntryPerTransition ==
  [][\A id \in DOMAIN orders, t \in RequestedStatuses :
       (UpdateOrderStatus("d1", id, t, "") /\ last'.err = "none")
         => LET before == orders[id].statusHistory
                after == orders'[id].statusHistory
            IN  /\ Len(after) = Len(before) + 1
                /\ after[Len(after)] =
                     [status |-> t, timestamp |-> Now,
                      note |-> noteOrDefault("", t),
                      updatedBy |-> "d1", updatedByModel |-> "Distributor"]]_vars

\* C22: in every state an order has cancelledAt and the cancelling actor set
\* exactly when its orderStatus is cancelled.
C22_CancellationRecordIffCancelled ==
  \A id \in DOMAIN orders :
    (orders[id].cancelledAt # Null /\ orders[id].cancelledBy # Null)
      <=> orders[id].orderStatus = "cancelled"

\* the last element of a non-empty sequence
Last(seq) == seq[Len(seq)]

\* C24: no step removes or rewrites a history entry, and a step that changes
\* orderStatus leaves a history whose last entry carries the new orderStatus.
C24_HistoryAppendOnly ==
  [][\A id \in DOMAIN orders :
       LET before == orders[id].statusHistory
           after == orders'[id].statusHistory
       IN  /\ Len(after) >= Len(before)
           /\ SubSeq(after, 1, Len(before)) = before
           /\ orders'[id].orderStatus # orders[id].orderStatus
                => /\ Len(after) > Len(before)
                   /\ Last(after).status = orders'[id].orderStatus]_vars

\* a COD confirmation changed the status of an order that a distributor had
\* moved to processing, and the hook logged the change after the earlier entries
C24_Witness ==
  /\ last.op = "confirmCOD"
  /\ last.err = "none"
  /\ Len(orders[last.id].statusHistory) = 3
  /\ orders[last.id].statusHistory[1].status = "processing"
  /\ Last(orders[last.id].statusHistory).status = "confirmed"
  /\ Last(orders[last.id].statusHistory).updatedBy = Null

\* C28: in every state an order whose approvalStatus is rejected has
\* orderStatus cancelled.
C28_RejectedStaysCancelled ==
  \A id \in DOMAIN orders :
    orders[id].approvalStatus = "rejected" => orders[id].orderStatus = "cancelled"

\* C29: an order whose paymentStatus is paid keeps paymentStatus paid.
C29_PaidStaysPaid ==
  [][\A id \in DOMAIN orders :
       orders[id].paymentStatus = "paid" => orders'[id].paymentStatus = "paid"]_vars

\* C30: in every state an order whose approvalStatus is approved has an
\* orderStatus other than pending.
C30_ApprovedNotPending ==
  \A id \in DOMAIN orders :
    orders[id].approvalStatus = "approved" => orders[id].orderStatus # "pending"

\* an approval that moved a pending order to confirmed, logged by the hook
C30_Witness ==
  /\ last.op = "approveOrder"
  /\ last.err = "none"
  /\ orders[last.id].approvalStatus = "approved"
  /\ orders[last.id].orderStatus = "confirmed"
  /\ Len(orders[last.id].statusHistory) = 1
  /\ orders[last.id].statusHistory[1].status = "confirmed"

\* the outcome of a request of a caller who does not own the order: nothing
\* stored changes and the request ends with an error, an AuthorizationError
\* when its body passes the handler's input validation
refused(wellFormed) ==
  /\ orders' = orders
  /\ products' = products
  /\ last'.err # "none"
  /\ wellFormed => last'.err = "AuthorizationError"

\* C23: cancel, razorpay creation, payment verification and COD confirmation
\* by a user who does not own the order, and status update, approval and
\* rejection by a distributor who does not own it, end with an
\* AuthorizationError and leave the order as it was.
C23_OnlyOwnersMutate ==
  [][\A id \in DOMAIN orders :
       /\ (orders[id].user # "u2" /\ CancelOrder("u2", id, "")) => refused(TRUE)
       /\ (orders[id].user # "u2" /\ CreateRazorpayOrder("u2", id)) => refused(TRUE)
       /\ \A signature \in Signatures :
            (orders[id].user # "u2"
               /\ VerifyPayment("u2", id, "rzp_order", "pay_1", signature)) => refused(TRUE)
       /\ (orders[id].user # "u2" /\ ConfirmCOD("u2", id)) => refused(TRUE)
       /\ \A status \in RequestedStatuses :
            /\ (orders[id].distributor # "d2" /\ UpdateOrderStatus("d2", id, status, ""))
                 => refused(TRUE)
            /\ (orders[id].distributor # "d2"
                   /\ DistributorUpdateOrderStatus("d2", id, status, ""))
                 => refused(status \in {"confirmed", "processing", "shipped", "delivered"})
       /\ \A deliveryCharge \in DeliveryCharges :
            (orders[id].distributor # "d2" /\ ApproveOrder("d2", id, deliveryCharge))
              => refused(TRUE)
       /\ \A reason \in Reasons :
            (orders[id].distributor # "d2" /\ RejectOrder("d2", id, reason))
              => refused(trim(reason) # "")]_vars

\* a rejection sent by a distributor who does not own the order, refused
\* while the order still waits for its own distributor's decision
C23_Witness ==
  /\ last.op = "rejectOrder"
  /\ last.err = "AuthorizationError"
  /\ orders[last.id].distributor = "d1"
  /\ orders[last.id].approvalStatus = "pending"
  /\ orders[last.id].orderStatus = "pending"

\* C25: when status updates interleave, an accepted update never moves the
\* stored orderStatus backward in the sequence and never changes a stored
\* status of delivered or cancelled.
C25_InterleavedUpdatesSerial ==
  [][\A slot \in Slots, t \in RequestedStatuses :
       (UpdateStatusSave(slot, t) /\ last'.err = "none")
         => LET s == orders[reads[slot].id].orderStatus
            IN  /\ s \in terminalStatuses => t = s
                /\ ~strictlyLater(t, s)]_vars

\* C26: in every state the stock of every product is 0 or more.
C26_StockNeverNegative ==
  \A p \in DOMAIN products : products[p].stock >= 0

\* C27: when approvals and rejections of one order interleave, the stored
\* order never carries the effects of both: an approved order has no
\* rejection reason and no distributor cancellation, and a rejected order
\* has no approval time.
C27_ApprovalDecidedOnce ==
  \A id \in DOMAIN orders :
    LET o == orders[id]
    IN  /\ o.approvalStatus = "approved"
             => /\ o.rejectionReason = Null
                /\ o.cancelledByModel # "Distributor"
        /\ o.approvalStatus = "rejected" => o.approvedAt = Null

====
